---- MODULE Spec2Model ----
(***************************************************************************)
(* Model of the lead scoring service of src/index.js (the first, canonical *)
(* implementation, lines 1-581: the scorer with the geo gates and the      *)
(* 50-point base).                                                         *)
(*                                                                         *)
(* JavaScript strings are sequences of one-character strings, so that      *)
(* trim, toLowerCase, includes, replace(/[^0-9.]/g, "") and Number() are   *)
(* computed character by character as the code computes them.             *)
(***************************************************************************)
EXTENDS Integers, Sequences, FiniteSets

(***************************************************************************)
(* Characters                                                              *)
(***************************************************************************)
UpperChars == <<"A","B","C","D","E","F","G","H","I","J","K","L","M",
                "N","O","P","Q","R","S","T","U","V","W","X","Y","Z">>

LowerChars == <<"a","b","c","d","e","f","g","h","i","j","k","l","m",
                "n","o","p","q","r","s","t","u","v","w","x","y","z">>

DigitChars == <<"0","1","2","3","4","5","6","7","8","9">>

\* the characters String.prototype.trim removes (those the inputs use)
WhiteSpace == {" ", "\t", "\n"}

IsDigit(c) == \E i \in 1..10 : DigitChars[i] = c

DigitVal(c) == (CHOOSE i \in 1..10 : DigitChars[i] = c) - 1

toLowerChar(c) ==
    IF \E i \in 1..26 : UpperChars[i] = c
    THEN LowerChars[CHOOSE i \in 1..26 : UpperChars[i] = c]
    ELSE c

toUpperChar(c) ==
    IF \E i \in 1..26 : LowerChars[i] = c
    THEN UpperChars[CHOOSE i \in 1..26 : LowerChars[i] = c]
    ELSE c

(***************************************************************************)
(* String primitives of the language                                       *)
(***************************************************************************)
SetMin(S) == CHOOSE x \in S : \A y \in S : x <= y

SetMax(S) == CHOOSE x \in S : \A y \in S : x >= y

\* String.prototype.trim
trim(s) ==
    LET keep == {i \in 1..Len(s) : s[i] \notin WhiteSpace}
    IN  IF keep = {} THEN <<>> ELSE SubSeq(s, SetMin(keep), SetMax(keep))

\* String.prototype.toLowerCase
toLowerCase(s) == [i \in 1..Len(s) |-> toLowerChar(s[i])]

\* String.prototype.toUpperCase
toUpperCase(s) == [i \in 1..Len(s) |-> toUpperChar(s[i])]

\* String.prototype.includes
includes(s, sub) ==
    \E i \in 1..(Len(s) - Len(sub) + 1) : SubSeq(s, i, i + Len(sub) - 1) = sub

\* s.replace(/[^0-9.]/g, "")
stripNonNumeric(s) == SelectSeq(s, LAMBDA c : IsDigit(c) \/ c = ".")

\* s.replace(/\D/g, "")
stripNonDigits(s) == SelectSeq(s, IsDigit)

RECURSIVE NatToDigits(_)
\* the decimal digits of a natural number
NatToDigits(n) ==
    IF n < 10 THEN <<DigitChars[n + 1]>>
    ELSE Append(NatToDigits(n \div 10), DigitChars[(n % 10) + 1])

RECURSIVE DigitsToNat(_)
\* the value of a digit string (used on short strings only)
DigitsToNat(ds) ==
    IF ds = <<>> THEN 0
    ELSE 10 * DigitsToNat(SubSeq(ds, 1, Len(ds) - 1)) + DigitVal(ds[Len(ds)])

Zeros(n) == [i \in 1..n |-> "0"]

(***************************************************************************)
(* JavaScript values of a lead record                                      *)
(***************************************************************************)
Undefined == [t |-> "undefined"]

Null == [t |-> "null"]

Str(s) == [t |-> "string", s |-> s]

Bool(b) == [t |-> "boolean", b |-> b]

\* the number (-1)^neg * mant * 10^exp
Num(neg, mant, exp) == [t |-> "number", neg |-> neg, mant |-> mant, exp |-> exp]

\* an object whose toString property is not callable, e.g. {"toString": 1}
BadObject == [t |-> "object"]

\* the exception marker of a call that threw
Throw == [t |-> "TypeError"]

RECURSIVE NormNum(_)
\* mantissa without trailing zeros: the shortest digit string of the number
NormNum(v) ==
    IF v.mant = 0 THEN Num(FALSE, 0, 0)
    ELSE IF v.mant % 10 = 0 THEN NormNum(Num(v.neg, v.mant \div 10, v.exp + 1))
    ELSE v

\* Number::toString of ECMA-262 (radix 10) for a positive number with the
\* decimal digits s and the decimal point after the n-th of them
formatDigits(s, n) ==
    IF Len(s) <= n /\ n <= 21 THEN s \o Zeros(n - Len(s))
    ELSE IF 0 < n /\ n <= 21
         THEN SubSeq(s, 1, n) \o <<".">> \o SubSeq(s, n + 1, Len(s))
    ELSE IF -6 < n /\ n <= 0 THEN <<"0", ".">> \o Zeros(-n) \o s
    ELSE (IF Len(s) = 1 THEN s ELSE <<s[1]>> \o <<".">> \o Tail(s))
         \o <<"e">> \o (IF n - 1 < 0 THEN <<"-">> ELSE <<"+">>)
         \o NatToDigits(IF n - 1 < 0 THEN 1 - n ELSE n - 1)

\* the digits of a normalised number and the position of its decimal point
formatNorm(c) ==
    (IF c.neg THEN <<"-">> ELSE <<>>)
    \o formatDigits(NatToDigits(c.mant), Len(NatToDigits(c.mant)) + c.exp)

\* Number.prototype.toString
NumberToString(v) ==
    IF v.mant = 0 THEN <<"0">> ELSE formatNorm(NormNum(v))

\* v.toString() for the values that have one
toString(v) ==
    CASE v.t = "string"  -> v.s
      [] v.t = "number"  -> NumberToString(v)
      [] v.t = "boolean" -> IF v.b THEN <<"t","r","u","e">> ELSE <<"f","a","l","s","e">>

\* mutant of Stringifiable: v.toString() without the ?? "" default
Stringifiable_NoDefault(v) == v.t \notin {"object", "undefined", "null"}

\* does (v ?? "").toString() return (TRUE) or throw a TypeError (FALSE):
\* undefined and null are replaced by "", every other value must have a
\* callable toString
Stringifiable(v) == v.t # "object"

\* the evaluation of toStr(v) throws: v is an exception already under way or
\* has no string form
Fails(v) == v = Throw \/ ~Stringifiable(v)

(***************************************************************************)
(* Number(s) on a string of digits and dots                                *)
(***************************************************************************)
NaN == [nan |-> TRUE]

\* Number(s) for s in [0-9.]*: "" is 0, one optional dot, "." alone is NaN
Number(s) ==
    LET dots == {i \in 1..Len(s) : s[i] = "."}
    IN  IF Cardinality(dots) > 1 \/ s = <<".">> THEN NaN
        ELSE IF dots = {} THEN [nan |-> FALSE, ip |-> s, fp |-> <<>>]
        ELSE LET d == CHOOSE i \in dots : TRUE
             IN  [nan |-> FALSE, ip |-> SubSeq(s, 1, d - 1),
                  fp |-> SubSeq(s, d + 1, Len(s))]

isNaN(n) == n.nan

RECURSIVE StripLeadingZeros(_)
StripLeadingZeros(ds) ==
    IF ds # <<>> /\ ds[1] = "0" THEN StripLeadingZeros(Tail(ds)) ELSE ds

AllZero(ds) == \A i \in 1..Len(ds) : ds[i] = "0"

\* n > 0
NumGT0(n) == ~(AllZero(n.ip) /\ AllZero(n.fp))

\* n >= k, k a positive integer
NumGE(n, k) ==
    LET ip == StripLeadingZeros(n.ip)
        kd == NatToDigits(k)
    IN  \/ Len(ip) > Len(kd)
        \/ Len(ip) = Len(kd) /\ DigitsToNat(ip) >= k

\* n <= k, k a positive integer
NumLE(n, k) ==
    LET ip == StripLeadingZeros(n.ip)
        kd == NatToDigits(k)
    IN  \/ Len(ip) < Len(kd)
        \/ Len(ip) = Len(kd) /\ DigitsToNat(ip) < k
        \/ Len(ip) = Len(kd) /\ DigitsToNat(ip) = k /\ AllZero(n.fp)

(***************************************************************************)
(* UTIL (src/index.js 50-97)                                               *)
(***************************************************************************)
\* (v ?? "").toString().trim(), on a value that is Stringifiable
toStr(v) ==
    IF v.t \in {"undefined", "null"} THEN <<>> ELSE trim(toString(v))

lower(v) == toLowerCase(toStr(v))

\* mutant of truthy: the JavaScript truthiness of the string ("false" is true)
truthy_NonEmpty(v) == lower(v) # <<>>

truthy(v) ==
    lower(v) \in {<<"t","r","u","e">>, <<"y","e","s">>, <<"1">>, <<"y">>,
                  <<"c","h","e","c","k","e","d">>, <<"o","n">>}

\* mutant of clamp: the upper bound is not applied
clamp_NoUpper(n, min, max) == IF min > n THEN min ELSE n

clamp(n, min, max) ==
    LET m == IF max < n THEN max ELSE n
    IN  IF min > m THEN min ELSE m

\* mutant of pickFrom: the first alias that is present wins, blank or not
pickFrom_FirstPresent(obj, keys, i) ==
    IF \A j \in i..Len(keys) : obj[keys[j]].t \in {"undefined", "null"}
    THEN Undefined
    ELSE obj[keys[SetMin({j \in i..Len(keys) :
                            obj[keys[j]].t \notin {"undefined", "null"}})]]

RECURSIVE pickFrom(_, _, _)
\* the loop of pick from the i-th key on; toStr(v) may throw on the way
pickFrom(obj, keys, i) ==
    IF i > Len(keys) THEN Undefined
    ELSE LET v == obj[keys[i]]
         IN  IF v.t \in {"undefined", "null"} THEN pickFrom(obj, keys, i + 1)
             ELSE IF ~Stringifiable(v) THEN Throw
             ELSE IF toStr(v) # <<>> THEN v
             ELSE pickFrom(obj, keys, i + 1)

pick(obj, keys) == pickFrom(obj, keys, 1)

\* the two includes tests of yn on the lowered string
ynOf(s) ==
    IF s \in {<<"y","e","s">>, <<"y">>, <<"t","r","u","e">>, <<"1">>,
              <<"c","h","e","c","k","e","d">>, <<"o","n">>} THEN "yes"
    ELSE IF s \in {<<"n","o">>, <<"n">>, <<"f","a","l","s","e">>, <<"0">>,
                   <<"o","f","f">>} THEN "no"
    ELSE "unknown"

yn(v) == ynOf(lower(v))

(***************************************************************************)
(* ENV (src/index.js 14-29) and the call under examination                 *)
(***************************************************************************)
VARIABLES
    REQUIRE_CA,     \* process.env.REQUIRE_CA, a string, "false" by default
    REQUIRE_KERN,   \* process.env.REQUIRE_KERN, a string, "false" by default
    NODE_ENV,       \* process.env.NODE_ENV, "development" by default
    BRAIN_SECRET,   \* process.env.BRAIN_SECRET, "" when unset or empty
    reqLead,        \* the lead record handed to scoreLead
    scored,         \* what the call produced: a ScoreResult, Throw, or NoResult
    pc,             \* "start" before the call, "done" after it
    table,          \* the Airtable table: the fields of record i at position i
    reqs            \* the HTTP requests: where each one is and what it got

vars == <<REQUIRE_CA, REQUIRE_KERN, NODE_ENV, BRAIN_SECRET, reqLead, scored, pc,
          table, reqs>>

NoResult == [t |-> "pending"]

(***************************************************************************)
(* SCORING (src/index.js 163-298)                                          *)
(***************************************************************************)
StateKeys == <<"State", "state">>

CountyKeys == <<"County", "county">>

OwnsKeys == <<"Owns property?", "owns_property", "owns", "own", "homeowner">>

BillKeys == <<"Avg monthly bill", "avg_monthly_bill", "bill">>

RoofKeys == <<"Roof age (years)", "roof_age_years", "roof_age">>

SunKeys == <<"Sun exposure", "sun_exposure">>

HoaKeys == <<"HOA?", "hoa", "has_hoa">>

TrueUpKeys == <<"Annual true-up cost", "true_up", "trueup">>

PtypeKeys == <<"Property type", "property_type">>

BaseScore == 50

QualifiedMin == 75

WarmMin == 55

\* Array.prototype.join: the pieces of the resulting string, in order
join(seq, sep) ==
    [i \in 1..(2 * Len(seq) - 1) |-> IF i % 2 = 1 THEN seq[(i + 1) \div 2] ELSE sep]

\* Math.round on the integer-valued sums the scorer produces
MathRound(n) == n

\* mutant of Disqualified: the early return keeps the base score
Disqualified_KeepsBase(rejectReasons, scoreReasons) ==
    [score |-> BaseScore,
     tier |-> "Disqualified",
     lead_temperature |-> "Cold",
     reject_reasons |-> rejectReasons,
     score_reasons |-> scoreReasons,
     marshall_eligible |-> FALSE]

\* the result object of both early returns
Disqualified(rejectReasons, scoreReasons) ==
    [score |-> 0,
     tier |-> "Disqualified",
     lead_temperature |-> "Cold",
     reject_reasons |-> rejectReasons,
     score_reasons |-> scoreReasons,
     marshall_eligible |-> FALSE]

\* the two geo gate tests, on the normalised state and county
geoGates(requireCA, requireKern, state, county) ==
    (IF requireCA /\ state # <<>> /\ state # <<"C","A">>
        /\ state # <<"C","A","L","I","F","O","R","N","I","A">>
     THEN <<"Outside California">> ELSE <<>>)
    \o
    (IF requireKern /\ county # <<>> /\ ~includes(county, <<"k","e","r","n">>)
     THEN <<"Outside Kern County">> ELSE <<>>)

\* the reject reasons of the optional geo gates, from the picked values
geoRejects(stateV, countyV) ==
    geoGates(truthy(Str(REQUIRE_CA)), truthy(Str(REQUIRE_KERN)),
             toUpperCase(toStr(stateV)), lower(countyV))

\* a signal is [pts |-> the change of the score, why |-> the reasons pushed]
Signal(pts, why) == [pts |-> pts, why |-> why]

\* Avg monthly bill: the branches on billNum and on b = lower(billRaw)
billBranch(billNum, b) ==
    IF ~isNaN(billNum) /\ NumGT0(billNum)
    THEN IF NumGE(billNum, 250) THEN Signal(18, <<"High bill">>)
         ELSE IF NumGE(billNum, 150) THEN Signal(10, <<"Mid bill">>)
         ELSE Signal(2, <<"Low bill">>)
    ELSE IF includes(b, <<"2","5","0">>) THEN Signal(18, <<"High bill">>)
         ELSE IF includes(b, <<"1","5","0">>) THEN Signal(10, <<"Mid bill">>)
         ELSE IF b # <<>> THEN Signal(4, <<"Bill provided">>)
         ELSE Signal(0, <<"Bill unknown">>)

billOf(billRaw) ==
    billBranch(Number(stripNonNumeric(billRaw)), lower(Str(billRaw)))

billFrom(raw) == IF Fails(raw) THEN Throw ELSE billOf(toStr(raw))

billSignal(lead) == billFrom(pick(lead, BillKeys))

\* mutant of roofBranch: the numeric path is taken for every parsed number,
\* zero included
roofBranch_ZeroIsNumeric(roofAgeNum, r) ==
    IF ~isNaN(roofAgeNum)
    THEN IF NumLE(roofAgeNum, 10) THEN Signal(12, <<"Roof <= 10 years">>)
         ELSE IF NumLE(roofAgeNum, 20) THEN Signal(6, <<"Roof 10-20 years">>)
         ELSE Signal(0, <<"Roof > 20 years">>)
    ELSE IF \/ includes(r, <<"u","n","d","e","r">>)
            \/ includes(r, <<"<">>)
            \/ includes(r, <<"1","0">>)
         THEN Signal(12, <<"Roof likely good">>)
         ELSE IF includes(r, <<"2","0">>) THEN Signal(6, <<"Roof maybe">>)
         ELSE Signal(0, <<"Roof unknown">>)

\* Roof age (years): the branches on roofAgeNum and on r = lower(roofAgeRaw)
roofBranch(roofAgeNum, r) ==
    IF ~isNaN(roofAgeNum) /\ NumGT0(roofAgeNum)
    THEN IF NumLE(roofAgeNum, 10) THEN Signal(12, <<"Roof <= 10 years">>)
         ELSE IF NumLE(roofAgeNum, 20) THEN Signal(6, <<"Roof 10-20 years">>)
         ELSE Signal(0, <<"Roof > 20 years">>)
    ELSE IF \/ includes(r, <<"u","n","d","e","r">>)
            \/ includes(r, <<"<">>)
            \/ includes(r, <<"1","0">>)
         THEN Signal(12, <<"Roof likely good">>)
         ELSE IF includes(r, <<"2","0">>) THEN Signal(6, <<"Roof maybe">>)
         ELSE Signal(0, <<"Roof unknown">>)

roofOf(roofAgeRaw) ==
    roofBranch(Number(stripNonNumeric(roofAgeRaw)), lower(Str(roofAgeRaw)))

roofFrom(raw) == IF Fails(raw) THEN Throw ELSE roofOf(toStr(raw))

roofSignal(lead) == roofFrom(pick(lead, RoofKeys))

\* Sun exposure: the branches on sun
sunBranch(sun) ==
    IF \/ includes(sun, <<"f","u","l","l">>)
       \/ includes(sun, <<"g","r","e","a","t">>)
       \/ includes(sun, <<"h","i","g","h">>)
    THEN Signal(10, <<"Good sun exposure">>)
    ELSE IF \/ includes(sun, <<"p","a","r","t","i","a","l">>)
            \/ includes(sun, <<"m","e","d","i","u","m">>)
         THEN Signal(5, <<"Medium sun exposure">>)
    ELSE IF sun # <<>> THEN Signal(0, <<"Low/unknown sun exposure">>)
    ELSE Signal(0, <<"Sun exposure unknown">>)

sunFrom(raw) == IF Fails(raw) THEN Throw ELSE sunBranch(lower(raw))

sunSignal(lead) == sunFrom(pick(lead, SunKeys))

\* mutant of hoaBranch: an HOA costs 5 points instead of 8
hoaBranch_YesCostsFive(hoa) ==
    IF hoa = "yes" THEN Signal(-5, <<"HOA friction">>)
    ELSE IF hoa = "no" THEN Signal(4, <<"No HOA">>)
    ELSE Signal(-2, <<"HOA unknown">>)

\* mutant of hoaBranch: an unknown HOA answer costs nothing
hoaBranch_NoUnknownPenalty(hoa) ==
    IF hoa = "yes" THEN Signal(-8, <<"HOA friction">>)
    ELSE IF hoa = "no" THEN Signal(4, <<"No HOA">>)
    ELSE Signal(0, <<"HOA unknown">>)

\* HOA friction: the branches on hoa
hoaBranch(hoa) ==
    IF hoa = "yes" THEN Signal(-8, <<"HOA friction">>)
    ELSE IF hoa = "no" THEN Signal(4, <<"No HOA">>)
    ELSE Signal(-2, <<"HOA unknown">>)

hoaFrom(hoaRaw) == IF Fails(hoaRaw) THEN Throw ELSE hoaBranch(yn(hoaRaw))

hoaSignal(lead) == hoaFrom(pick(lead, HoaKeys))

\* True-up bills: the branches on trueUpNum and trueUpTxt
trueUpBranch(trueUpNum, trueUpTxt) ==
    IF ~isNaN(trueUpNum) /\ NumGT0(trueUpNum)
    THEN IF NumGE(trueUpNum, 500) THEN Signal(6, <<"High true-up cost">>)
         ELSE Signal(2, <<"True-up cost indicated">>)
    ELSE IF \/ includes(trueUpTxt, <<"y","e","s">>)
            \/ includes(trueUpTxt, <<"t","r","u","e">>)
         THEN Signal(4, <<"True-up indicated">>)
    ELSE Signal(0, <<>>)

trueUpOf(trueUpRaw) ==
    trueUpBranch(Number(stripNonNumeric(trueUpRaw)), lower(Str(trueUpRaw)))

trueUpFrom(raw) == IF Fails(raw) THEN Throw ELSE trueUpOf(toStr(raw))

trueUpSignal(lead) == trueUpFrom(pick(lead, TrueUpKeys))

\* mutant of ptypeBranch: the mobile-home penalty mistyped as 60
ptypeBranch_Penalty60(ptype) ==
    IF includes(ptype, <<"s","i","n","g","l","e">>)
    THEN Signal(4, <<"Single family">>)
    ELSE IF \/ includes(ptype, <<"m","o","b","i","l","e">>)
            \/ includes(ptype, <<"m","a","n","u","f","a","c","t">>)
         THEN Signal(-60, <<"Mobile/manufactured complexity">>)
    ELSE IF ptype # <<>> THEN Signal(0, <<"Property type noted">>)
    ELSE Signal(0, <<>>)

\* Property type: the branches on ptype
ptypeBranch(ptype) ==
    IF includes(ptype, <<"s","i","n","g","l","e">>)
    THEN Signal(4, <<"Single family">>)
    ELSE IF \/ includes(ptype, <<"m","o","b","i","l","e">>)
            \/ includes(ptype, <<"m","a","n","u","f","a","c","t">>)
         THEN Signal(-6, <<"Mobile/manufactured complexity">>)
    ELSE IF ptype # <<>> THEN Signal(0, <<"Property type noted">>)
    ELSE Signal(0, <<>>)

ptypeFrom(raw) == IF Fails(raw) THEN Throw ELSE ptypeBranch(lower(raw))

ptypeSignal(lead) == ptypeFrom(pick(lead, PtypeKeys))

\* mutant of tiered: the cutoffs compared with > instead of >=
tiered_StrictCutoffs(score, reasons) ==
    [score |-> score,
     tier |-> IF score > QualifiedMin THEN "Qualified - Send to Marshall"
              ELSE IF score > WarmMin THEN "Warm - Review Later"
              ELSE "Educational Only",
     lead_temperature |-> IF score > QualifiedMin THEN "Hot"
                          ELSE IF score > WarmMin THEN "Warm"
                          ELSE "Cold",
     reject_reasons |-> <<>>,
     score_reasons |-> join(reasons, " | "),
     marshall_eligible |-> score > QualifiedMin]

\* the tiering of a clamped score, with the reasons collected on the way
\* (the en dash U+2013 of the labels is written "-": module text is ASCII)
tiered(score, reasons) ==
    [score |-> score,
     tier |-> IF score >= QualifiedMin THEN "Qualified - Send to Marshall"
              ELSE IF score >= WarmMin THEN "Warm - Review Later"
              ELSE "Educational Only",
     lead_temperature |-> IF score >= QualifiedMin THEN "Hot"
                          ELSE IF score >= WarmMin THEN "Warm"
                          ELSE "Cold",
     reject_reasons |-> <<>>,
     score_reasons |-> join(reasons, " | "),
     marshall_eligible |-> score >= QualifiedMin]

\* mutant of signalled: the roof reason is pushed before the bill reason
signalled_RoofBeforeBill(sig) ==
    IF \E i \in 1..6 : sig[i] = Throw THEN Throw
    ELSE tiered(clamp(MathRound(BaseScore + sig[1].pts + sig[2].pts + sig[3].pts
                                + sig[4].pts + sig[5].pts + sig[6].pts), 0, 100),
                <<"Homeowner">> \o sig[2].why \o sig[1].why \o sig[3].why
                \o sig[4].why \o sig[5].why \o sig[6].why)

\* the six signals added to the base, clamped and tiered
signalled(sig) ==
    IF \E i \in 1..6 : sig[i] = Throw THEN Throw
    ELSE tiered(clamp(MathRound(BaseScore + sig[1].pts + sig[2].pts + sig[3].pts
                                + sig[4].pts + sig[5].pts + sig[6].pts), 0, 100),
                <<"Homeowner">> \o sig[1].why \o sig[2].why \o sig[3].why
                \o sig[4].why \o sig[5].why \o sig[6].why)

\* the scorer after the ownership gate: the signals in the order of evaluation
signalsOf(lead) ==
    signalled(<<billSignal(lead), roofSignal(lead), sunSignal(lead),
                hoaSignal(lead), trueUpSignal(lead), ptypeSignal(lead)>>)

\* mutant of ownsGate: only an explicit "no" is rejected
ownsGate_RejectsOnlyNo(lead, ownsRaw) ==
    IF Fails(ownsRaw) THEN Throw
    ELSE IF yn(ownsRaw) = "no"
         THEN Disqualified(<<"Not homeowner">>, <<"Not homeowner">>)
    ELSE signalsOf(lead)

\* the ownership hard gate
ownsGate(lead, ownsRaw) ==
    IF Fails(ownsRaw) THEN Throw
    ELSE IF yn(ownsRaw) # "yes"
         THEN Disqualified(<<"Not homeowner">>, <<"Not homeowner">>)
    ELSE signalsOf(lead)

\* mutant of geoGate: no early return, the ownership gate adds its reason
geoGate_FallsThrough(lead, rejectReasons) ==
    IF rejectReasons # <<>>
    THEN IF Fails(pick(lead, OwnsKeys)) THEN Throw
         ELSE IF yn(pick(lead, OwnsKeys)) # "yes"
              THEN Disqualified(rejectReasons \o <<"Not homeowner">>,
                                join(rejectReasons \o <<"Not homeowner">>, " | "))
         ELSE Disqualified(rejectReasons, join(rejectReasons, " | "))
    ELSE ownsGate(lead, pick(lead, OwnsKeys))

\* the early return of the geo gates
geoGate(lead, rejectReasons) ==
    IF rejectReasons # <<>>
    THEN Disqualified(rejectReasons, join(rejectReasons, " | "))
    ELSE ownsGate(lead, pick(lead, OwnsKeys))

geoFrom(lead, stateV, countyV) ==
    IF Fails(stateV) \/ Fails(countyV) THEN Throw
    ELSE geoGate(lead, geoRejects(stateV, countyV))

\* mutant of scoreLead: the scorer looks at the store, and turns every lead
\* down once the table holds a record
scoreLead_ConsultsStore(lead) ==
    IF table # <<>>
    THEN Disqualified(<<"Not homeowner">>, <<"Not homeowner">>)
    ELSE geoFrom(lead, pick(lead, StateKeys), pick(lead, CountyKeys))

scoreLead(lead) ==
    geoFrom(lead, pick(lead, StateKeys), pick(lead, CountyKeys))

(***************************************************************************)
(* The lead records the call is examined on.  A record maps every alias    *)
(* the scorer probes to a value, Undefined for a key that was not sent.    *)
(* A field option is a set of <<key, value>> pairs for one logical field.  *)
(***************************************************************************)
Range(seq) == {seq[i] : i \in 1..Len(seq)}

Keys ==
    Range(StateKeys) \cup Range(CountyKeys) \cup Range(OwnsKeys)
    \cup Range(BillKeys) \cup Range(RoofKeys) \cup Range(SunKeys)
    \cup Range(HoaKeys) \cup Range(TrueUpKeys) \cup Range(PtypeKeys)

MkLead(pairs) ==
    [k \in Keys |-> IF \E p \in pairs : p[1] = k
                    THEN (CHOOSE p \in pairs : p[1] = k)[2]
                    ELSE Undefined]

\* lead with the keys of one logical field replaced by a field option
WithField(lead, keys, option) ==
    [k \in Keys |-> IF k \in Range(keys)
                    THEN IF \E p \in option : p[1] = k
                         THEN (CHOOSE p \in option : p[1] = k)[2]
                         ELSE Undefined
                    ELSE lead[k]]

\* numeric bills are drawn around every multiple of 50 up to 50 * MaxBillK
MaxBillK == 6

\* numeric roof ages are drawn from 0..MaxRoofAge
MaxRoofAge == 21

BillAmounts == {a \in {50 * k + d : k \in 0..MaxBillK, d \in {-1, 0, 1}} : a >= 0}

\* values of the REQUIRE_CA and REQUIRE_KERN environment variables
EnvFlags ==
    {<<"f","a","l","s","e">>,
     <<"t","r","u","e">>}

StateOptions ==
    {{},
     {<<"State", Str(<<"C","A">>)>>},
     {<<"state", Str(<<" ","c","a","l","i","f","o","r","n","i","a"," ">>)>>},
     {<<"State", Str(<<"N","V">>)>>},
     {<<"State", Str(<<" "," ">>)>>, <<"state", Str(<<"t","x">>)>>},
     {<<"State", Str(<<" ">>)>>}}

CountyOptions ==
    {{},
     {<<"County", Str(<<"K","e","r","n">>)>>},
     {<<"county", Str(<<"K","E","R","N"," ","C","O","U","N","T","Y">>)>>},
     {<<"County", Str(<<"L","o","s"," ","A","n","g","e","l","e","s">>)>>},
     {<<"County", Str(<<>>)>>, <<"county", Str(<<"T","u","l","a","r","e">>)>>},
     {<<"County", Null>>}}

OwnsOptions ==
    {{},
     {<<"owns", Str(<<"y","e","s">>)>>},
     {<<"Owns property?", Str(<<"Y","e","s"," ">>)>>},
     {<<"owns_property", Bool(TRUE)>>},
     {<<"homeowner", Num(FALSE, 1, 0)>>},
     {<<"own", Str(<<"n","o">>)>>},
     {<<"owns", Bool(FALSE)>>},
     {<<"owns", Str(<<"m","a","y","b","e">>)>>},
     {<<"Owns property?", Str(<<" ">>)>>, <<"own", Str(<<"y">>)>>},
     {<<"owns", Str(<<"n","o">>)>>, <<"homeowner", Str(<<"y","e","s">>)>>}}

OwnerYes == {<<"owns", Str(<<"y","e","s">>)>>}

\* one option per branch of a signal (Reps), and further forms of the
\* same field (Variants)
BillReps ==
    {{},
     {<<"Avg monthly bill", Str(<<"3","0","0">>)>>},
     {<<"bill", Num(FALSE, 200, 0)>>},
     {<<"avg_monthly_bill", Str(<<"$","9","9">>)>>},
     {<<"bill", Str(<<"n","/","a">>)>>}}

BillVariants ==
    {{<<"bill", Num(TRUE, 300, 0)>>},
     {<<"bill", Num(FALSE, 5, -1)>>},
     {<<"bill", Num(FALSE, 2495, -1)>>},
     {<<"bill", Num(FALSE, 1, 21)>>},
     {<<"bill", Str(<<"$","1","5","0","-","$","2","5","0">>)>>},
     {<<"bill", Str(<<"1","0","0",".","0","0","-","2","5","0",".","0","0">>)>>},
     {<<"bill", Str(<<"1","0","0",".","0","0","-","1","5","0",".","0","0">>)>>},
     {<<"bill", Str(<<"0">>)>>},
     {<<"bill", Str(<<"2","5","0">>)>>},
     {<<"bill", Str(<<" ","1","2","0"," ">>)>>},
     {<<"bill", Bool(TRUE)>>},
     {<<"Avg monthly bill", Str(<<" ">>)>>, <<"bill", Str(<<"3","0","0">>)>>},
     {<<"avg_monthly_bill", Str(<<"1","0","0">>)>>, <<"bill", Str(<<"3","0","0">>)>>},
     {<<"Avg monthly bill", Null>>, <<"bill", Str(<<"2","0","0">>)>>}}
    \cup BillReps \cup {{<<"bill", Num(FALSE, a, 0)>>} : a \in BillAmounts}

RoofReps ==
    {{},
     {<<"Roof age (years)", Str(<<"5">>)>>},
     {<<"roof_age", Num(FALSE, 15, 0)>>}}

RoofVariants ==
    {{<<"roof_age", Num(FALSE, 105, -1)>>},
     {<<"roof_age", Str(<<"0">>)>>},
     {<<"roof_age", Str(<<"U","n","d","e","r"," ","1","0"," ","y","e","a","r","s">>)>>},
     {<<"roof_age", Str(<<"1","0","-","2","0"," ","y","e","a","r","s">>)>>},
     {<<"roof_age", Str(<<"u","n","d","e","r"," ","a"," ","d","e","c","a","d","e">>)>>},
     {<<"roof_age", Str(<<"<"," ","f","i","v","e">>)>>},
     {<<"roof_age", Str(<<"n","e","w">>)>>},
     {<<"roof_age", Str(<<"1","0",".","5","-","2","0",".","5">>)>>},
     {<<"roof_age", Str(<<"2","0",".","5","-","3","0",".","5">>)>>},
     {<<"Roof age (years)", Str(<<>>)>>, <<"roof_age_years", Str(<<"3","0">>)>>}}
    \cup RoofReps \cup {{<<"roof_age_years", Num(FALSE, a, 0)>>} : a \in 0..MaxRoofAge}

SunReps ==
    {{},
     {<<"Sun exposure", Str(<<"F","u","l","l"," ","s","u","n">>)>>},
     {<<"sun_exposure", Str(<<"p","a","r","t","i","a","l"," ","s","h","a","d","e">>)>>}}

SunVariants ==
    {{<<"Sun exposure", Str(<<"G","R","E","A","T">>)>>},
     {<<"Sun exposure", Str(<<"H","i","g","h">>)>>},
     {<<"Sun exposure", Str(<<"M","e","d","i","u","m">>)>>},
     {<<"Sun exposure", Str(<<"s","h","a","d","e","d">>)>>},
     {<<"Sun exposure", Str(<<" ">>)>>},
     {<<"Sun exposure", Str(<<>>)>>, <<"sun_exposure", Str(<<"f","u","l","l">>)>>}}
    \cup SunReps

HoaReps ==
    {{},
     {<<"HOA?", Str(<<"y","e","s">>)>>},
     {<<"hoa", Str(<<"N","o">>)>>}}

HoaVariants ==
    {{<<"hoa", Bool(TRUE)>>},
     {<<"hoa", Bool(FALSE)>>},
     {<<"HOA?", Str(<<"n","o","t"," ","s","u","r","e">>)>>},
     {<<"has_hoa", Str(<<"y">>)>>},
     {<<"hoa", Num(FALSE, 0, 0)>>},
     {<<"HOA?", Str(<<" ">>)>>, <<"has_hoa", Str(<<"o","f","f">>)>>}}
    \cup HoaReps

TrueUpReps ==
    {{},
     {<<"Annual true-up cost", Str(<<"$","6","0","0">>)>>},
     {<<"true_up", Str(<<"1","2","0">>)>>},
     {<<"trueup", Str(<<"Y","e","s">>)>>}}

TrueUpVariants ==
    {{<<"true_up", Num(FALSE, 500, 0)>>},
     {<<"true_up", Num(FALSE, 499, 0)>>},
     {<<"true_up", Str(<<"n","o">>)>>},
     {<<"true_up", Bool(TRUE)>>},
     {<<"true_up", Str(<<"Y","e","s",","," ","a","b","o","u","t"," ","$","6","0","0">>)>>},
     {<<"true_up", Str(<<"0">>)>>}}
    \cup TrueUpReps

PtypeReps ==
    {{},
     {<<"Property type", Str(<<"S","i","n","g","l","e"," ","f","a","m","i","l","y">>)>>},
     {<<"property_type", Str(<<"M","o","b","i","l","e"," ","h","o","m","e">>)>>}}

PtypeVariants ==
    {{<<"Property type", Str(<<"M","a","n","u","f","a","c","t","u","r","e","d">>)>>},
     {<<"Property type", Str(<<"C","o","n","d","o">>)>>},
     {<<"property_type", Str(<<"S","I","N","G","L","E">>)>>}}
    \cup PtypeReps

\* a profile gives the six signal fields: nothing sent, or the best of each
EmptyProfile == <<{}, {}, {}, {}, {}, {}>>

BestProfile ==
    <<{<<"Avg monthly bill", Str(<<"3","0","0">>)>>},
      {<<"Roof age (years)", Str(<<"5">>)>>},
      {<<"Sun exposure", Str(<<"F","u","l","l"," ","s","u","n">>)>>},
      {<<"hoa", Str(<<"N","o">>)>>},
      {<<"Annual true-up cost", Str(<<"$","6","0","0">>)>>},
      {<<"Property type", Str(<<"S","i","n","g","l","e"," ","f","a","m","i","l","y">>)>>}>>

Profiles == {EmptyProfile, BestProfile}

PairsOf(six) == six[1] \cup six[2] \cup six[3] \cup six[4] \cup six[5] \cup six[6]

\* every combination of the branches of the six signals, for an owner
ScoreLeads ==
    {MkLead(OwnerYes \cup PairsOf(<<b, r, s, h, t, p>>)) :
        b \in BillReps, r \in RoofReps, s \in SunReps,
        h \in HoaReps, t \in TrueUpReps, p \in PtypeReps}

\* every combination of the state, county and ownership options
GateLeads ==
    {MkLead(st \cup co \cup ow \cup PairsOf(prof)) :
        st \in StateOptions, co \in CountyOptions, ow \in OwnsOptions,
        prof \in Profiles}

\* every form of one signal field, the other fields from a profile
VariantLeads ==
    UNION {
        {WithField(MkLead(OwnerYes \cup PairsOf(prof)), BillKeys, v) : v \in BillVariants}
        \cup {WithField(MkLead(OwnerYes \cup PairsOf(prof)), RoofKeys, v) : v \in RoofVariants}
        \cup {WithField(MkLead(OwnerYes \cup PairsOf(prof)), SunKeys, v) : v \in SunVariants}
        \cup {WithField(MkLead(OwnerYes \cup PairsOf(prof)), HoaKeys, v) : v \in HoaVariants}
        \cup {WithField(MkLead(OwnerYes \cup PairsOf(prof)), TrueUpKeys, v) : v \in TrueUpVariants}
        \cup {WithField(MkLead(OwnerYes \cup PairsOf(prof)), PtypeKeys, v) : v \in PtypeVariants}
        : prof \in Profiles}

\* records outside the LeadRecord type: a value that has no string form
BadLeads ==
    {MkLead({<<"County", BadObject>>, <<"owns", Str(<<"y","e","s">>)>>}),
     MkLead({<<"owns", Str(<<"y","e","s">>)>>, <<"bill", BadObject>>}),
     MkLead({<<"owns", Str(<<"n","o">>)>>, <<"bill", BadObject>>}),
     MkLead({<<"Owns property?", Str(<<"y","e","s">>)>>, <<"owns", BadObject>>}),
     MkLead({<<"Owns property?", Str(<<" ">>)>>, <<"owns", BadObject>>})}

Leads == ScoreLeads \cup GateLeads \cup VariantLeads \cup BadLeads

(***************************************************************************)
(* UTIL, SECURITY, CONSENT and AIRTABLE (src/index.js 67-76, 106-149,      *)
(* 320-500).  The environment is one in which AIRTABLE_API_KEY,            *)
(* AIRTABLE_BASE_ID and AIRTABLE_TABLE_NAME are set.                       *)
(***************************************************************************)
PhoneKeys == <<"phone", "Phone", "What is your best phone number">>

EmailKeys == <<"email", "Email", "What is your best email">>

\* (the apostrophe of the third key is U+2019 in the source)
AddressKeys ==
    <<"address", "Address",
      "What is your property address you're asking in regards to?">>

\* the zip aliases of the dedupe key
ZipKeys == <<"zip", "Zip", "Zip/postal code">>

\* the zip aliases of the stored column
ZipColumnKeys == <<"zip", "Zip", "Zip/postal code", "Zip/postal code ">>

EmailConsentKeys ==
    <<"opt_in_email", "Opt-in email?", "Email consent checkbox", "email_consent">>

SmsConsentKeys ==
    <<"opt_in_sms", "Opt-in SMS?", "SMS consent checkbox", "sms_consent">>

RECURSIVE coalesceFrom(_, _, _)
\* obj[k_i] ?? obj[k_i+1] ?? ... : the first value that is not undefined/null
coalesceFrom(obj, keys, i) ==
    IF i >= Len(keys) THEN obj[keys[i]]
    ELSE IF obj[keys[i]].t \in {"undefined", "null"}
         THEN coalesceFrom(obj, keys, i + 1)
         ELSE obj[keys[i]]

coalesce(obj, keys) == coalesceFrom(obj, keys, 1)

\* the last ten digits of the phone, all of them if there are at most ten
normalizePhone(phone) ==
    IF Len(stripNonDigits(toStr(phone))) > 10
    THEN SubSeq(stripNonDigits(toStr(phone)),
                Len(stripNonDigits(toStr(phone))) - 9,
                Len(stripNonDigits(toStr(phone))))
    ELSE stripNonDigits(toStr(phone))

RECURSIVE escapeQuotes(_)
\* s.replace(/'/g, "\\'")
escapeQuotes(s) ==
    IF s = <<>> THEN <<>>
    ELSE (IF s[1] = "'" THEN <<"\\", "'">> ELSE <<s[1]>>) \o escapeQuotes(Tail(s))

\* on a string s
escapeAirtableString(s) == escapeQuotes(trim(s))

\* the tests of the filterByFormula, OR(...) of them; <<>> is the formula ""
\* (phone, email, address and zip are strings)
buildDedupeFormula(phone, email, address, zip) ==
    (IF phone # <<>>
     THEN <<[test |-> "{Phone}=", lit |-> escapeAirtableString(phone), lit2 |-> <<>>]>>
     ELSE <<>>)
    \o
    (IF email # <<>>
     THEN <<[test |-> "LOWER({Email})=",
             lit |-> escapeAirtableString(lower(Str(email))), lit2 |-> <<>>]>>
     ELSE <<>>)
    \o
    (IF address # <<>> /\ zip # <<>>
     THEN <<[test |-> "AND(LOWER({Address})=,{Zip}=)",
             lit |-> escapeAirtableString(lower(Str(address))),
             lit2 |-> escapeAirtableString(toStr(Str(zip)))]>>
     ELSE IF address # <<>>
          THEN <<[test |-> "LOWER({Address})=",
                  lit |-> escapeAirtableString(lower(Str(address))), lit2 |-> <<>>]>>
          ELSE <<>>)

\* the dedupe keys of upsertLeadToAirtable and the formula built from them
dedupeFormula(lead) ==
    buildDedupeFormula(normalizePhone(coalesce(lead, PhoneKeys)),
                       toStr(coalesce(lead, EmailKeys)),
                       toStr(coalesce(lead, AddressKeys)),
                       toStr(coalesce(lead, ZipKeys)))

RECURSIVE unescapeQuotes(_)
\* the string a quoted literal of the formula denotes
unescapeQuotes(s) ==
    IF s = <<>> THEN <<>>
    ELSE IF Len(s) >= 2 /\ s[1] = "\\" /\ s[2] = "'"
         THEN <<"'">> \o unescapeQuotes(SubSeq(s, 3, Len(s)))
         ELSE <<s[1]>> \o unescapeQuotes(Tail(s))

\* one test of the formula on the fields of a stored record
testHolds(part, fields) ==
    CASE part.test = "{Phone}=" ->
            fields["Phone"] = unescapeQuotes(part.lit)
      [] part.test = "LOWER({Email})=" ->
            toLowerCase(fields["Email"]) = unescapeQuotes(part.lit)
      [] part.test = "LOWER({Address})=" ->
            toLowerCase(fields["Address"]) = unescapeQuotes(part.lit)
      [] part.test = "AND(LOWER({Address})=,{Zip}=)" ->
            /\ toLowerCase(fields["Address"]) = unescapeQuotes(part.lit)
            /\ fields["Zip"] = unescapeQuotes(part.lit2)

\* the ids of the records the formula OR(parts) selects
airtableMatches(formula, tbl) ==
    {id \in 1..Len(tbl) :
        \E p \in 1..Len(formula) : testHolds(formula[p], tbl[id])}

extractConsentFlags(lead) ==
    [opt_in_email |-> truthy(coalesce(lead, EmailConsentKeys)),
     opt_in_sms   |-> truthy(coalesce(lead, SmsConsentKeys))]

\* the columns of the stored record that take part in deduplication, the
\* scoring outputs, the outreach controls and the trace; the columns that
\* copy further intake answers are left out
Columns ==
    {"Phone", "Email", "Address", "Zip", "Score", "Tier", "Lead temperature",
     "Score reasons", "Reject reasons", "AI tier", "Needs scoring",
     "Opt-in email?", "Opt-in SMS?", "Outreach allowed", "Do not contact",
     "Internal notes"}

buildAirtableFieldsFromLead(lead, result, consentFlags, meta) ==
    [c \in Columns |->
        CASE c = "Phone" -> toStr(coalesce(lead, PhoneKeys))
          [] c = "Email" -> toStr(coalesce(lead, EmailKeys))
          [] c = "Address" -> toStr(coalesce(lead, AddressKeys))
          [] c = "Zip" -> toStr(coalesce(lead, ZipColumnKeys))
          [] c = "Score" -> result.score
          [] c = "Tier" -> result.tier
          [] c = "Lead temperature" -> result.lead_temperature
          [] c = "Score reasons" -> result.score_reasons
          [] c = "Reject reasons" -> join(result.reject_reasons, " | ")
          [] c = "AI tier" -> result.tier
          [] c = "Needs scoring" -> FALSE
          [] c = "Opt-in email?" -> consentFlags.opt_in_email
          [] c = "Opt-in SMS?" -> consentFlags.opt_in_sms
          [] c = "Outreach allowed" ->
                consentFlags.opt_in_email \/ consentFlags.opt_in_sms
          [] c = "Do not contact" ->
                ~(consentFlags.opt_in_email \/ consentFlags.opt_in_sms)
          [] c = "Internal notes" -> meta.trace_id]

\* the fields /ingest writes for a lead it scored, in the request with trace
\* id t
fieldsOf(lead, result, t) ==
    buildAirtableFieldsFromLead(lead, result, extractConsentFlags(lead),
                                [trace_id |-> t])

\* the routing summary of both endpoints
routing(result, consent) ==
    [route_to_marshall |-> result.tier = "Qualified - Send to Marshall",
     allow_sms |-> consent.opt_in_sms,
     allow_email |-> consent.opt_in_email,
     outreach_allowed |-> consent.opt_in_sms \/ consent.opt_in_email,
     do_not_contact |-> ~(consent.opt_in_sms \/ consent.opt_in_email)]

\* mutant of requireSecret: any header that is present is let through
requireSecret_PresenceOnly(secret) ==
    IF BRAIN_SECRET = ""
    THEN IF NODE_ENV = "production" THEN 500 ELSE 0
    ELSE IF secret = "" THEN 401 ELSE 0

\* the status the middleware answers with, 0 when it calls next(); secret is
\* the x-brain-secret header, "" when it was not sent
requireSecret(secret) ==
    IF BRAIN_SECRET = ""
    THEN IF NODE_ENV = "production" THEN 500 ELSE 0
    ELSE IF secret = "" \/ secret # BRAIN_SECRET THEN 401 ELSE 0

\* req.body?.lead ?? req.body ?? {} : a body is its "lead" member and the
\* record of its other members
leadOf(body) == IF body.lead # Undefined THEN body.lead ELSE body.own

(***************************************************************************)
(* The requests of POST /score and POST /ingest (src/index.js 513-573)     *)
(***************************************************************************)
\* at most MaxRequests requests are received
MaxRequests == 2

Reqs == 1..MaxRequests

\* a request that has not been received yet
Idle == [st |-> "idle"]

\* a received request: st is "finding" while the GET of airtableFindExisting
\* is awaited, "creating" / "updating" while the POST / PATCH is awaited and
\* "done" once the response is sent; result is the value of scoreLead
\* (NoResult if it was not called), existing the id of the record found (0
\* for none), calls the methods of the Airtable requests issued so far
Req(st, in, result, existing, calls, resp) ==
    [st |-> st, path |-> in.path, header |-> in.header, lead |-> leadOf(in.body),
     scored |-> result, existing |-> existing, calls |-> calls, resp |-> resp]

NoResponse == [status |-> 0]

\* res.status(status).json({ ok: false, error })
Failure(status, error) == [status |-> status, ok |-> FALSE, error |-> error]

\* the body of the 401 / 500 answer of requireSecret
refusal(status) ==
    IF status = 401 THEN Failure(401, "Unauthorized")
    ELSE Failure(500, "Server misconfigured (missing BRAIN_SECRET)")

\* res.json({ ok: true, trace_id, airtable, scored, consent, routing })
Success(t, airtable, result, consent) ==
    [status |-> 200, ok |-> TRUE, trace_id |-> t, airtable |-> airtable,
     scored |-> result, consent |-> consent,
     routing |-> routing(result, consent)]

\* the request is the next one to be received
Arrives(r) ==
    /\ reqs[r].st = "idle"
    /\ \A q \in Reqs : q < r => reqs[q].st # "idle"

\* the handler of /ingest up to its first await: scoreLead, the consent
\* flags and the synchronous part of upsertLeadToAirtable; with no dedupe
\* key airtableFindExisting returns null without a request and the POST of
\* airtableCreate is issued at once
ingestHandler(r, in, result) ==
    /\ reqs' = [reqs EXCEPT ![r] =
          IF result = Throw
          THEN Req("done", in, result, 0, <<>>, Failure(500, "Ingest failed"))
          ELSE IF dedupeFormula(leadOf(in.body)) = <<>>
               THEN Req("creating", in, result, 0, <<"POST">>, NoResponse)
               ELSE Req("finding", in, result, 0, <<"GET">>, NoResponse)]
    /\ UNCHANGED table

\* mutant of scoreHandler: the score-only endpoint upserts as /ingest does
scoreHandler_Upserts(r, in, result) == ingestHandler(r, in, result)

\* the handler of /score; a throw of scoreLead is answered 500 by Express
scoreHandler(r, in, result) ==
    /\ reqs' = [reqs EXCEPT ![r] =
          IF result = Throw
          THEN Req("done", in, result, 0, <<>>, Failure(500, "Internal Server Error"))
          ELSE Req("done", in, result, 0, <<>>,
                   Success(r, Undefined, result, extractConsentFlags(leadOf(in.body))))]
    /\ UNCHANGED table

\* requireSecret answered the request itself
refused(r, in, status) ==
    /\ reqs' = [reqs EXCEPT ![r] =
                   Req("done", in, NoResult, 0, <<>>, refusal(status))]
    /\ UNCHANGED table

(***************************************************************************)
(* The call                                                                *)
(***************************************************************************)
Init ==
    /\ REQUIRE_CA \in EnvFlags
    /\ REQUIRE_KERN \in EnvFlags
    /\ NODE_ENV = "development"
    /\ BRAIN_SECRET = ""
    /\ reqLead \in Leads
    /\ scored = NoResult
    /\ pc = "start"
    /\ table = <<>>
    /\ reqs = [r \in Reqs |-> Idle]

\* const scored = scoreLead(lead)
Call ==
    /\ pc = "start"
    /\ scored' = scoreLead(reqLead)
    /\ pc' = "done"
    /\ UNCHANGED <<REQUIRE_CA, REQUIRE_KERN, NODE_ENV, BRAIN_SECRET, reqLead,
                   table, reqs>>

Next == Call

Spec == Init /\ [][Next]_vars

(***************************************************************************)
(* The server: requests of /score and /ingest against one Airtable table   *)
(***************************************************************************)
\* every key the endpoints read from a lead
AllKeys ==
    Keys \cup Range(PhoneKeys) \cup Range(EmailKeys) \cup Range(AddressKeys)
    \cup Range(ZipColumnKeys) \cup Range(EmailConsentKeys) \cup Range(SmsConsentKeys)

MkHttpLead(pairs) ==
    [k \in AllKeys |-> IF \E p \in pairs : p[1] = k
                       THEN (CHOOSE p \in pairs : p[1] = k)[2]
                       ELSE Undefined]

\* the best lead, with a formatted phone number and SMS consent
FormattedPhoneLead ==
    MkHttpLead(OwnerYes \cup PairsOf(BestProfile) \cup
        {<<"phone", Str(<<"+","1"," ","(","6","6","1",")"," ","5","5","5","-",
                          "0","1","0","0">>)>>,
         <<"opt_in_sms", Bool(TRUE)>>})

\* the same phone number as ten digits, from somebody who is not the owner
PlainPhoneLead ==
    MkHttpLead({<<"owns", Str(<<"n","o">>)>>,
                <<"Phone", Str(<<"6","6","1","5","5","5","0","1","0","0">>)>>})

\* no phone, an email address with capitals, email consent
EmailLead ==
    MkHttpLead(OwnerYes \cup
        {<<"Email", Str(<<"A","n","n","@","X",".","i","o">>)>>,
         <<"Opt-in email?", Str(<<"y","e","s">>)>>})

\* no phone and no email, an address with an apostrophe and a zip
AddressLead ==
    MkHttpLead(OwnerYes \cup
        {<<"address", Str(<<"1"," ","O","'","N","e","i","l"," ","S","t">>)>>,
         <<"Zip/postal code", Str(<<"9","3","3","0","1">>)>>,
         <<"County", Str(<<"T","u","l","a","r","e">>)>>})

\* nothing that identifies the lead
AnonymousLead == MkHttpLead(OwnerYes)

\* a value that has no string form
BrokenLead == MkHttpLead({<<"owns", Str(<<"y","e","s">>)>>, <<"bill", BadObject>>})

HttpLeads ==
    {FormattedPhoneLead, PlainPhoneLead, EmailLead, AddressLead, AnonymousLead}

\* the JSON bodies: a bare lead, and a body whose "lead" member wins
Bare(l) == [lead |-> Undefined, own |-> l]

Bodies ==
    {Bare(l) : l \in HttpLeads \cup {BrokenLead}}
    \cup {[lead |-> EmailLead, own |-> PlainPhoneLead]}

\* /ingest with the right header and every body; /score with the right
\* header and three of the bodies; both with the header missing or wrong
Inputs ==
    {[path |-> "/ingest", header |-> "s3cret", body |-> b] : b \in Bodies}
    \cup {[path |-> "/score", header |-> "s3cret", body |-> Bare(l)] :
            l \in {FormattedPhoneLead, AddressLead, BrokenLead}}
    \cup {[path |-> p, header |-> h, body |-> Bare(FormattedPhoneLead)] :
            p \in {"/score", "/ingest"}, h \in {"", "guess"}}

\* the deployments examined: production with the secret set and the county
\* gate on, production without the secret, and development with and
\* without the secret
Deployments ==
    {[NODE_ENV |-> "production", BRAIN_SECRET |-> "s3cret",
      REQUIRE_KERN |-> <<"t","r","u","e">>],
     [NODE_ENV |-> "production", BRAIN_SECRET |-> "",
      REQUIRE_KERN |-> <<"f","a","l","s","e">>],
     [NODE_ENV |-> "development", BRAIN_SECRET |-> "s3cret",
      REQUIRE_KERN |-> <<"f","a","l","s","e">>],
     [NODE_ENV |-> "development", BRAIN_SECRET |-> "",
      REQUIRE_KERN |-> <<"f","a","l","s","e">>]}

InitHttp ==
    /\ \E d \in Deployments :
          /\ NODE_ENV = d.NODE_ENV
          /\ BRAIN_SECRET = d.BRAIN_SECRET
          /\ REQUIRE_KERN = d.REQUIRE_KERN
    /\ REQUIRE_CA = <<"f","a","l","s","e">>
    /\ reqLead = MkLead({})
    /\ scored = NoResult
    /\ pc = "serving"
    /\ table = <<>>
    /\ reqs = [r \in Reqs |-> Idle]

\* app.post("/score", requireSecret, ...)
PostScore(r) ==
    /\ Arrives(r)
    /\ \E in \in Inputs :
          /\ in.path = "/score"
          /\ IF requireSecret(in.header) # 0
             THEN refused(r, in, requireSecret(in.header))
             ELSE scoreHandler(r, in, scoreLead(leadOf(in.body)))
    /\ UNCHANGED <<REQUIRE_CA, REQUIRE_KERN, NODE_ENV, BRAIN_SECRET, reqLead,
                   scored, pc>>

\* app.post("/ingest", requireSecret, ...) up to the first await
PostIngest(r) ==
    /\ Arrives(r)
    /\ \E in \in Inputs :
          /\ in.path = "/ingest"
          /\ IF requireSecret(in.header) # 0
             THEN refused(r, in, requireSecret(in.header))
             ELSE ingestHandler(r, in, scoreLead(leadOf(in.body)))
    /\ UNCHANGED <<REQUIRE_CA, REQUIRE_KERN, NODE_ENV, BRAIN_SECRET, reqLead,
                   scored, pc>>

\* the GET of airtableFindExisting is answered: one record the formula
\* selects, if any (maxRecords=1), and the PATCH or the POST is issued
FindReturns(r) ==
    /\ reqs[r].st = "finding"
    /\ IF airtableMatches(dedupeFormula(reqs[r].lead), table) = {}
       THEN reqs' = [reqs EXCEPT ![r].st = "creating",
                                 ![r].calls = Append(@, "POST")]
       ELSE \E id \in airtableMatches(dedupeFormula(reqs[r].lead), table) :
               reqs' = [reqs EXCEPT ![r].st = "updating",
                                    ![r].existing = id,
                                    ![r].calls = Append(@, "PATCH")]
    /\ UNCHANGED <<REQUIRE_CA, REQUIRE_KERN, NODE_ENV, BRAIN_SECRET, reqLead,
                   scored, pc, table>>

\* the POST of airtableCreate or the PATCH of airtableUpdate is carried out
\* and answered, and /ingest responds
WriteReturns(r) ==
    /\ reqs[r].st \in {"creating", "updating"}
    /\ IF reqs[r].st = "creating"
       THEN /\ table' = Append(table, fieldsOf(reqs[r].lead, reqs[r].scored, r))
            /\ reqs' = [reqs EXCEPT ![r].st = "done",
                  ![r].resp = Success(r, [action |-> "created",
                                          record_id |-> Len(table) + 1],
                                      reqs[r].scored,
                                      extractConsentFlags(reqs[r].lead))]
       ELSE /\ table' = [table EXCEPT ![reqs[r].existing] = fieldsOf(reqs[r].lead, reqs[r].scored, r)]
            /\ reqs' = [reqs EXCEPT ![r].st = "done",
                  ![r].resp = Success(r, [action |-> "updated",
                                          record_id |-> reqs[r].existing],
                                      reqs[r].scored,
                                      extractConsentFlags(reqs[r].lead))]
    /\ UNCHANGED <<REQUIRE_CA, REQUIRE_KERN, NODE_ENV, BRAIN_SECRET, reqLead,
                   scored, pc>>

\* an Airtable request is answered with an error status: airtableRequest
\* throws and /ingest responds 500
AirtableFails(r) ==
    /\ reqs[r].st \in {"finding", "creating", "updating"}
    /\ reqs' = [reqs EXCEPT ![r].st = "done",
                            ![r].resp = Failure(500, "Ingest failed")]
    /\ UNCHANGED <<REQUIRE_CA, REQUIRE_KERN, NODE_ENV, BRAIN_SECRET, reqLead,
                   scored, pc, table>>

NextHttp ==
    \E r \in Reqs :
        \/ PostScore(r)
        \/ PostIngest(r)
        \/ FindReturns(r)
        \/ WriteReturns(r)
        \/ AirtableFails(r)

\* requests that may overlap
SpecHttp == InitHttp /\ [][NextHttp]_vars

\* no request is being handled
NoneInFlight == \A q \in Reqs : reqs[q].st \in {"idle", "done"}

NextSeq ==
    \E r \in Reqs :
        \/ NoneInFlight /\ PostScore(r)
        \/ NoneInFlight /\ PostIngest(r)
        \/ FindReturns(r)
        \/ WriteReturns(r)
        \/ AirtableFails(r)

\* requests that do not overlap: one is received only when none is in flight
SpecSeq == InitHttp /\ [][NextSeq]_vars

(***************************************************************************)
(* Vocabulary of the properties, stated on the record and the environment  *)
(***************************************************************************)
\* the call returned a ScoreResult (it did not throw)
Returned == pc = "done" /\ scored # Throw

\* an environment switch holds one of the six truthy words
SwitchOn(flag) ==
    toLowerCase(trim(flag)) \in
        {<<"t","r","u","e">>, <<"y","e","s">>, <<"1">>, <<"y">>,
         <<"c","h","e","c","k","e","d">>, <<"o","n">>}

\* the string form of a present value, "" for a key that was not sent
TextOf(v) == IF v.t \in {"undefined", "null", "object"} THEN <<>> ELSE trim(toString(v))

\* the first alias of the field with a non-blank value, 0 when there is none
FirstSent(lead, keys) ==
    IF \E i \in 1..Len(keys) : TextOf(lead[keys[i]]) # <<>>
    THEN SetMin({i \in 1..Len(keys) : TextOf(lead[keys[i]]) # <<>>})
    ELSE 0

\* the lowercase text the field resolves to, "" when it is absent or blank
FieldText(lead, keys) ==
    IF FirstSent(lead, keys) = 0 THEN <<>>
    ELSE toLowerCase(TextOf(lead[keys[FirstSent(lead, keys)]]))

YesWords == {<<"y","e","s">>, <<"y">>, <<"t","r","u","e">>, <<"1">>,
             <<"c","h","e","c","k","e","d">>, <<"o","n">>}

\* ownership resolves to yes
IsOwner(lead) == FieldText(lead, OwnsKeys) \in YesWords

\* the state gate / the county gate is enabled and the field violates it
StateRejects(lead) ==
    /\ SwitchOn(REQUIRE_CA)
    /\ FieldText(lead, StateKeys) \notin {<<>>, <<"c","a">>,
                                          <<"c","a","l","i","f","o","r","n","i","a">>}

CountyRejects(lead) ==
    /\ SwitchOn(REQUIRE_KERN)
    /\ FieldText(lead, CountyKeys) # <<>>
    /\ ~includes(FieldText(lead, CountyKeys), <<"k","e","r","n">>)

\* the lead passes the geo gates and the ownership gate
PassesGates(lead) == ~StateRejects(lead) /\ ~CountyRejects(lead) /\ IsOwner(lead)

InSeq(x, seq) == \E i \in 1..Len(seq) : seq[i] = x

\* every value of the record is a string, a number or a boolean
IsLeadRecord(lead) ==
    \A k \in Keys : lead[k].t \in {"undefined", "string", "number", "boolean"}

TierLabels == {"Disqualified", "Qualified - Send to Marshall",
               "Warm - Review Later", "Educational Only"}

(***************************************************************************)
(* C1                                                                      *)
(***************************************************************************)
\* C1 as stated: whenever ownership resolves to anything other than yes, the
\* result is score 0, tier Disqualified, not eligible, and reject_reasons is
\* exactly ["Not homeowner"], for every gate configuration.
C1_NotOwnerAlwaysNotHomeowner ==
    (Returned /\ ~IsOwner(reqLead)) =>
        /\ scored.score = 0
        /\ scored.tier = "Disqualified"
        /\ scored.marshall_eligible = FALSE
        /\ scored.reject_reasons = <<"Not homeowner">>

\* C1 amended: whenever ownership resolves to anything other than yes, the
\* result is score 0, tier Disqualified, not eligible; reject_reasons is
\* exactly ["Not homeowner"] unless an enabled geo gate rejects the record,
\* and then it holds the geo reasons only.
C1_NotOwnerDisqualified ==
    (Returned /\ ~IsOwner(reqLead)) =>
        /\ scored.score = 0
        /\ scored.tier = "Disqualified"
        /\ scored.marshall_eligible = FALSE
        /\ (~StateRejects(reqLead) /\ ~CountyRejects(reqLead))
              => scored.reject_reasons = <<"Not homeowner">>
        /\ (StateRejects(reqLead) \/ CountyRejects(reqLead))
              => ~InSeq("Not homeowner", scored.reject_reasons)

\* C1 witness: a record with no ownership answer but every signal at its
\* best, under an enabled county gate it satisfies, is turned down
C1_Witness ==
    /\ Returned
    /\ FieldText(reqLead, OwnsKeys) = <<>>
    /\ SwitchOn(REQUIRE_KERN)
    /\ includes(FieldText(reqLead, CountyKeys), <<"k","e","r","n">>)
    /\ FieldText(reqLead, BillKeys) = <<"3","0","0">>
    /\ scored.reject_reasons = <<"Not homeowner">>

(***************************************************************************)
(* C2                                                                      *)
(***************************************************************************)
\* C2 as stated: reject_reasons non-empty, score = 0, tier Disqualified and
\* marshall_eligible = false are pairwise equivalent.
C2_FourWayEquivalence ==
    Returned =>
        /\ (scored.reject_reasons # <<>>) <=> (scored.score = 0)
        /\ (scored.score = 0) <=> (scored.tier = "Disqualified")
        /\ (scored.tier = "Disqualified") <=> (scored.marshall_eligible = FALSE)

\* C2 amended: reject_reasons non-empty, score = 0 and tier Disqualified are
\* pairwise equivalent and each implies marshall_eligible = false; an
\* eligible result has score at least 75 and no reject reason.
C2_ThreeWayEquivalence ==
    Returned =>
        /\ (scored.reject_reasons # <<>>) <=> (scored.score = 0)
        /\ (scored.score = 0) <=> (scored.tier = "Disqualified")
        /\ (scored.tier = "Disqualified") => (scored.marshall_eligible = FALSE)
        /\ (scored.marshall_eligible = TRUE) =>
              (scored.score >= 75 /\ scored.reject_reasons = <<>>)

\* C2 witness: a result that is not eligible and not disqualified
C2_Witness ==
    /\ Returned
    /\ scored.marshall_eligible = FALSE
    /\ scored.tier = "Warm - Review Later"
    /\ scored.score > 0
    /\ scored.reject_reasons = <<>>

(***************************************************************************)
(* C3                                                                      *)
(***************************************************************************)
\* C3: reject_reasons is non-empty iff score = 0 and tier is Disqualified;
\* a lead that passes the geo and ownership gates never ends with score 0
\* or tier Disqualified, whatever penalties apply.
C3_RejectIffZeroDisqualified ==
    Returned =>
        /\ (scored.reject_reasons # <<>>)
              <=> (scored.score = 0 /\ scored.tier = "Disqualified")
        /\ PassesGates(reqLead) =>
              (scored.score > 0 /\ scored.tier # "Disqualified"
               /\ scored.reject_reasons = <<>>)

\* C3 witness: a passing lead with every penalty (HOA, mobile home) and no
\* bonus at all: the lowest score there is
C3_Witness ==
    /\ Returned
    /\ PassesGates(reqLead)
    /\ FieldText(reqLead, HoaKeys) = <<"y","e","s">>
    /\ includes(FieldText(reqLead, PtypeKeys), <<"m","o","b","i","l","e">>)
    /\ FieldText(reqLead, BillKeys) = <<>>
    /\ FieldText(reqLead, RoofKeys) = <<>>
    /\ FieldText(reqLead, SunKeys) = <<>>
    /\ FieldText(reqLead, TrueUpKeys) = <<>>
    /\ scored.score = 36

(***************************************************************************)
(* C4                                                                      *)
(***************************************************************************)
\* C4: the score is an integer in [0, 100] for all inputs, also when every
\* positive signal applies at once.
C4_ScoreInRange ==
    Returned => scored.score \in 0..100

\* C4 witness: base 50 plus bonuses 18, 12, 10, 4, 6 and 4 is 104, returned
\* as 100
C4_Witness ==
    /\ Returned
    /\ InSeq("High bill", scored.score_reasons)
    /\ InSeq("Roof <= 10 years", scored.score_reasons)
    /\ InSeq("Good sun exposure", scored.score_reasons)
    /\ InSeq("No HOA", scored.score_reasons)
    /\ InSeq("High true-up cost", scored.score_reasons)
    /\ InSeq("Single family", scored.score_reasons)
    /\ scored.score = 100

(***************************************************************************)
(* C5                                                                      *)
(***************************************************************************)
\* the record with its state and county fields replaced
WithGeo(lead, st, co) == WithField(WithField(lead, StateKeys, st), CountyKeys, co)

\* C5: a geo gate adds its reject reason only when its switch is enabled
\* and its field is non-empty; with both switches disabled, records that
\* differ only in their state and county fields get identical results.
C5_GeoGatesOnlyWhenEnabled ==
    Returned =>
        /\ InSeq("Outside California", scored.reject_reasons) =>
              (SwitchOn(REQUIRE_CA) /\ FieldText(reqLead, StateKeys) # <<>>)
        /\ InSeq("Outside Kern County", scored.reject_reasons) =>
              (SwitchOn(REQUIRE_KERN) /\ FieldText(reqLead, CountyKeys) # <<>>)
        /\ (~SwitchOn(REQUIRE_CA) /\ ~SwitchOn(REQUIRE_KERN)) =>
              \A st \in StateOptions, co \in CountyOptions :
                  scoreLead(WithGeo(reqLead, st, co)) = scored

\* C5 witness: with both switches disabled an owner in Nevada, outside Kern
\* county, is scored on the signals
C5_Witness ==
    /\ Returned
    /\ ~SwitchOn(REQUIRE_CA) /\ ~SwitchOn(REQUIRE_KERN)
    /\ FieldText(reqLead, StateKeys) = <<"n","v">>
    /\ FieldText(reqLead, CountyKeys) = <<"l","o","s"," ","a","n","g","e","l","e","s">>
    /\ scored.reject_reasons = <<>>
    /\ scored.score = 100

(***************************************************************************)
(* C6                                                                      *)
(***************************************************************************)
\* C6: whenever the county gate is enabled and the county field is
\* non-empty and does not contain "kern", the result is score 0,
\* Disqualified, Cold, not eligible, with "Outside Kern County" and without
\* "Not homeowner" among the reject reasons, whatever the other fields.
C6_CountyGateShortCircuits ==
    (Returned /\ CountyRejects(reqLead)) =>
        /\ scored.score = 0
        /\ scored.tier = "Disqualified"
        /\ scored.lead_temperature = "Cold"
        /\ scored.marshall_eligible = FALSE
        /\ InSeq("Outside Kern County", scored.reject_reasons)
        /\ ~InSeq("Not homeowner", scored.reject_reasons)

\* C6 witness: the county gate turns down a record that also fails the
\* ownership gate
C6_Witness ==
    /\ Returned
    /\ CountyRejects(reqLead)
    /\ FieldText(reqLead, OwnsKeys) = <<"n","o">>
    /\ scored.reject_reasons = <<"Outside Kern County">>

(***************************************************************************)
(* C7                                                                      *)
(***************************************************************************)
\* C7: for a lead that passes the gates the score alone decides the tier,
\* the temperature and the eligibility: >= 75 Qualified/Hot/true, 55..74
\* Warm/Warm/false, < 55 Educational Only/Cold/false; eligible exactly when
\* the tier is Qualified.
C7_TierFromScore ==
    (Returned /\ PassesGates(reqLead)) =>
        /\ scored.score >= 75 =>
              /\ scored.tier = "Qualified - Send to Marshall"
              /\ scored.lead_temperature = "Hot"
              /\ scored.marshall_eligible = TRUE
        /\ (scored.score >= 55 /\ scored.score < 75) =>
              /\ scored.tier = "Warm - Review Later"
              /\ scored.lead_temperature = "Warm"
              /\ scored.marshall_eligible = FALSE
        /\ scored.score < 55 =>
              /\ scored.tier = "Educational Only"
              /\ scored.lead_temperature = "Cold"
              /\ scored.marshall_eligible = FALSE
        /\ scored.marshall_eligible
              <=> (scored.tier = "Qualified - Send to Marshall")

\* C7 witness: a passing lead exactly on the upper cutoff
C7_Witness ==
    /\ Returned
    /\ PassesGates(reqLead)
    /\ scored.score = 75
    /\ scored.tier = "Qualified - Send to Marshall"

(***************************************************************************)
(* C8                                                                      *)
(***************************************************************************)
\* no key other than the ownership aliases was sent
AllOptionalAbsent(lead) ==
    \A k \in Keys \ Range(OwnsKeys) : lead[k] = Undefined

\* C8 as stated: a homeowner record with every optional field absent lands
\* in the middle tier, "Warm - Review Later".
C8_OwnerOnlyIsWarm ==
    (Returned /\ IsOwner(reqLead) /\ AllOptionalAbsent(reqLead)) =>
        scored.tier = "Warm - Review Later"

\* C8 amended: a homeowner record with every optional field absent is not
\* disqualified but scores 48 (base 50 less 2 for the unknown HOA) and lands
\* in the lowest scoring tier, "Educational Only", temperature Cold.
C8_OwnerOnlyIsEducational ==
    (Returned /\ IsOwner(reqLead) /\ AllOptionalAbsent(reqLead)) =>
        /\ scored.score = 48
        /\ scored.tier = "Educational Only"
        /\ scored.lead_temperature = "Cold"
        /\ scored.reject_reasons = <<>>

\* C8 witness: the record {owns: "yes"} has been scored
C8_Witness ==
    /\ Returned
    /\ reqLead = MkLead({<<"owns", Str(<<"y","e","s">>)>>})
    /\ InSeq("HOA unknown", scored.score_reasons)
    /\ scored.score = 48

(***************************************************************************)
(* C9                                                                      *)
(***************************************************************************)
\* the value the bill field resolves to
BillValue(lead) ==
    IF FirstSent(lead, BillKeys) = 0 THEN Undefined
    ELSE lead[BillKeys[FirstSent(lead, BillKeys)]]

\* the bill is a numeric amount: a number, or a string of digits
IsAmount(v) ==
    \/ v.t = "number"
    \/ /\ v.t = "string"
       /\ trim(v.s) # <<>>
       /\ Len(trim(v.s)) <= 6
       /\ \A i \in 1..Len(trim(v.s)) : IsDigit(trim(v.s)[i])

RECURSIVE Pow10(_)
Pow10(e) == IF e = 0 THEN 1 ELSE 10 * Pow10(e - 1)

\* the amount is below the integer k (0 < k < 1000)
AmountBelow(v, k) ==
    IF v.t = "string" THEN DigitsToNat(trim(v.s)) < k
    ELSE \/ v.neg
         \/ v.mant = 0
         \/ v.exp >= 0 /\ v.exp <= 3 /\ v.mant * Pow10(v.exp) < k
         \/ v.exp < 0 /\ v.mant < k * Pow10(-v.exp)

\* C9 as stated: for two gate-passing records identical except for the bill
\* field, the first with a numeric bill below 150 and the second with a
\* numeric bill of at least 250, the second scores at least as much.
C9_BillMonotone ==
    (/\ Returned
     /\ PassesGates(reqLead)
     /\ IsAmount(BillValue(reqLead))
     /\ AmountBelow(BillValue(reqLead), 150)) =>
        \A opt \in BillVariants :
            (/\ IsAmount(BillValue(WithField(reqLead, BillKeys, opt)))
             /\ ~AmountBelow(BillValue(WithField(reqLead, BillKeys, opt)), 250))
            => scoreLead(WithField(reqLead, BillKeys, opt)).score >= scored.score

(***************************************************************************)
(* C10                                                                     *)
(***************************************************************************)
WellFormed(r) ==
    /\ DOMAIN r = {"score", "tier", "lead_temperature", "reject_reasons",
                   "score_reasons", "marshall_eligible"}
    /\ r.score \in 0..100
    /\ r.tier \in TierLabels
    /\ r.lead_temperature \in {"Hot", "Warm", "Cold"}
    /\ r.marshall_eligible \in BOOLEAN
    /\ r.reject_reasons \in Seq({"Outside California", "Outside Kern County",
                                 "Not homeowner"})
    /\ DOMAIN r.score_reasons = 1..Len(r.score_reasons)

\* C10: for every record whose values are strings, numbers or booleans the
\* call returns a well-formed ScoreResult and never throws; the empty
\* record yields the disqualified result with reject_reasons
\* ["Not homeowner"].
C10_Total ==
    (pc = "done" /\ IsLeadRecord(reqLead)) =>
        /\ scored # Throw
        /\ WellFormed(scored)
        /\ reqLead = MkLead({}) =>
              /\ scored.score = 0
              /\ scored.tier = "Disqualified"
              /\ scored.lead_temperature = "Cold"
              /\ scored.marshall_eligible = FALSE
              /\ scored.reject_reasons = <<"Not homeowner">>

\* C10 witness: the empty record has been scored under both geo gates
C10_Witness ==
    /\ pc = "done"
    /\ reqLead = MkLead({})
    /\ SwitchOn(REQUIRE_CA) /\ SwitchOn(REQUIRE_KERN)
    /\ scored # Throw
    /\ scored.reject_reasons = <<"Not homeowner">>

(***************************************************************************)
(* C11                                                                     *)
(***************************************************************************)
\* the nine logical fields the scorer resolves, each with its alias list
Fields == <<StateKeys, CountyKeys, OwnsKeys, BillKeys, RoofKeys, SunKeys,
            HoaKeys, TrueUpKeys, PtypeKeys>>

\* the value of the first alias that is present and not blank after
\* trimming, Undefined when every alias is missing or blank
Resolved(lead, keys) ==
    IF FirstSent(lead, keys) = 0 THEN Undefined
    ELSE lead[keys[FirstSent(lead, keys)]]

\* the record that carries, for each logical field, only the resolved value
\* under the first alias of the field, and nothing for a field that
\* resolves to nothing
Canonical(lead) ==
    [k \in Keys |->
        IF \E f \in 1..Len(Fields) : Fields[f][1] = k
        THEN Resolved(lead, Fields[CHOOSE f \in 1..Len(Fields) : Fields[f][1] = k])
        ELSE Undefined]

\* C11: every logical field is resolved to the value of the first alias in
\* its priority list that is present and non-blank after trimming (a blank
\* earlier alias is skipped), and scoring sees nothing else of the record:
\* the record reduced to its resolved values, in which a field whose aliases
\* are all missing or blank is not sent at all, scores the same.
C11_FirstNonBlankAlias ==
    (pc = "done" /\ IsLeadRecord(reqLead)) =>
        /\ \A f \in 1..Len(Fields) :
               pick(reqLead, Fields[f]) = Resolved(reqLead, Fields[f])
        /\ scoreLead(Canonical(reqLead)) = scored

\* C11 witness: the state is sent blank under its first alias and as "tx"
\* under the second; the enabled state gate acts on "tx"
C11_Witness ==
    /\ Returned
    /\ IsLeadRecord(reqLead)
    /\ reqLead["State"].t = "string"
    /\ TextOf(reqLead["State"]) = <<>>
    /\ TextOf(reqLead["state"]) = <<"t","x">>
    /\ SwitchOn(REQUIRE_CA)
    /\ scored.reject_reasons = <<"Outside California">>

(***************************************************************************)
(* C15                                                                     *)
(***************************************************************************)
\* the amount is at most the integer k (0 < k < 1000)
AmountAtMost(v, k) ==
    IF v.t = "string" THEN DigitsToNat(trim(v.s)) <= k
    ELSE \/ v.neg
         \/ v.mant = 0
         \/ v.exp >= 0 /\ v.exp <= 3 /\ v.mant * Pow10(v.exp) <= k
         \/ v.exp < 0 /\ v.mant <= k * Pow10(-v.exp)

\* the score of the same record with no roof age sent
ScoreWithoutRoof(lead) == scoreLead(WithField(lead, RoofKeys, {})).score

\* the roof signal added pts points and the reason why
RoofAdds(pts, why) ==
    /\ InSeq(why, scored.score_reasons)
    /\ scored.score = clamp(ScoreWithoutRoof(reqLead) + pts, 0, 100)

\* C15 as stated: when the roof age of a gate-passing record is a number, an
\* age of at most 10 (a brand-new roof of age 0 included) adds 12 with the
\* reason "Roof <= 10 years", an age above 10 and at most 20 adds 6 with
\* "Roof 10-20 years", and an age above 20 adds 0 with "Roof > 20 years".
C15_RoofAgeBands ==
    (/\ Returned
     /\ PassesGates(reqLead)
     /\ IsAmount(Resolved(reqLead, RoofKeys))) =>
        IF AmountAtMost(Resolved(reqLead, RoofKeys), 10)
        THEN RoofAdds(12, "Roof <= 10 years")
        ELSE IF AmountAtMost(Resolved(reqLead, RoofKeys), 20)
             THEN RoofAdds(6, "Roof 10-20 years")
             ELSE RoofAdds(0, "Roof > 20 years")

\* the amount is zero
ZeroAmount(v) ==
    IF v.t = "string" THEN DigitsToNat(trim(v.s)) = 0 ELSE v.mant = 0

\* the amount is not negative
NotNegative(v) == v.t = "number" => (~v.neg \/ v.mant = 0)

\* C15 amended: when the roof age of a gate-passing record is a number that
\* is not negative, an age above 0 and at most 10 adds 12 with the reason
\* "Roof <= 10 years", an age above 10 and at most 20 adds 6 with
\* "Roof 10-20 years", an age above 20 adds 0 with "Roof > 20 years"; an age
\* of 0 is not a positive number, goes to the textual fallback and adds 0
\* with the reason "Roof unknown".
C15_RoofAgeBandsPositive ==
    (/\ Returned
     /\ PassesGates(reqLead)
     /\ IsAmount(Resolved(reqLead, RoofKeys))
     /\ NotNegative(Resolved(reqLead, RoofKeys))) =>
        IF ZeroAmount(Resolved(reqLead, RoofKeys))
        THEN RoofAdds(0, "Roof unknown")
        ELSE IF AmountAtMost(Resolved(reqLead, RoofKeys), 10)
             THEN RoofAdds(12, "Roof <= 10 years")
             ELSE IF AmountAtMost(Resolved(reqLead, RoofKeys), 20)
                  THEN RoofAdds(6, "Roof 10-20 years")
                  ELSE RoofAdds(0, "Roof > 20 years")

\* C15 witness: the number 0 was sent as the roof age of an owner whose
\* other signals are at their best, and it counted as an unknown roof
C15_Witness ==
    /\ Returned
    /\ PassesGates(reqLead)
    /\ Resolved(reqLead, RoofKeys) = Num(FALSE, 0, 0)
    /\ FieldText(reqLead, BillKeys) = <<"3","0","0">>
    /\ InSeq("Roof unknown", scored.score_reasons)
    /\ scored.score = ScoreWithoutRoof(reqLead)

(***************************************************************************)
(* C16                                                                     *)
(***************************************************************************)
NoWords == {<<"n","o">>, <<"n">>, <<"f","a","l","s","e">>, <<"0">>, <<"o","f","f">>}

\* the score of the same record with the HOA question answered "yes"; it is
\* at most 92, so the clamp has not touched it
ScoreWithHoaYes(lead) ==
    scoreLead(WithField(lead, HoaKeys, {<<"HOA?", Str(<<"y","e","s">>)>>})).score

\* the HOA signal added pts points and the reason why
HoaAdds(pts, why) ==
    /\ InSeq(why, scored.score_reasons)
    /\ scored.score = clamp(ScoreWithHoaYes(reqLead) + 8 + pts, 0, 100)

\* C16: for a gate-passing record the HOA field contributes exactly -8 when
\* it resolves to yes, +4 when it resolves to no and -2 when it is unknown
\* (absent, blank or unrecognised text); a homeowner record with every other
\* field absent therefore scores 48, "Educational Only", "Cold".
C16_HoaContribution ==
    (Returned /\ PassesGates(reqLead)) =>
        /\ IF FieldText(reqLead, HoaKeys) \in YesWords
           THEN HoaAdds(-8, "HOA friction")
           ELSE IF FieldText(reqLead, HoaKeys) \in NoWords
                THEN HoaAdds(4, "No HOA")
                ELSE HoaAdds(-2, "HOA unknown")
        /\ AllOptionalAbsent(reqLead) =>
              /\ scored.score = BaseScore - 2
              /\ scored.tier = "Educational Only"
              /\ scored.lead_temperature = "Cold"

\* C16 witness: an owner answered the HOA question with free text and lost
\* two points for it
C16_Witness ==
    /\ Returned
    /\ PassesGates(reqLead)
    /\ FieldText(reqLead, HoaKeys) = <<"n","o","t"," ","s","u","r","e">>
    /\ InSeq("HOA unknown", scored.score_reasons)
    /\ scored.score = ScoreWithHoaYes(reqLead) + 6

(***************************************************************************)
(* C17                                                                     *)
(***************************************************************************)
BillReasons == {"High bill", "Mid bill", "Low bill", "Bill provided", "Bill unknown"}

RoofReasons == {"Roof <= 10 years", "Roof 10-20 years", "Roof > 20 years",
                "Roof likely good", "Roof maybe", "Roof unknown"}

SunReasons == {"Good sun exposure", "Medium sun exposure",
               "Low/unknown sun exposure", "Sun exposure unknown"}

HoaReasons == {"HOA friction", "No HOA", "HOA unknown"}

TrueUpReasons == {"High true-up cost", "True-up cost indicated", "True-up indicated"}

PtypeReasons == {"Single family", "Mobile/manufactured complexity",
                 "Property type noted"}

\* score_reasons is a list of reasons with " | " between any two of them
WellJoined(s) ==
    /\ Len(s) % 2 = 1
    /\ \A i \in 1..Len(s) : (i % 2 = 0) <=> (s[i] = " | ")

\* the reasons of a well-joined score_reasons, in order
ReasonsIn(s) == [i \in 1..((Len(s) + 1) \div 2) |-> s[2 * i - 1]]

\* rs is one bill, one roof, one sun and one HOA reason, then at most one
\* true-up reason, then at most one property type reason
SignalReasons(rs) ==
    /\ Len(rs) \in 4..6
    /\ rs[1] \in BillReasons
    /\ rs[2] \in RoofReasons
    /\ rs[3] \in SunReasons
    /\ rs[4] \in HoaReasons
    /\ Len(rs) = 5 => rs[5] \in TrueUpReasons \cup PtypeReasons
    /\ Len(rs) = 6 => (rs[5] \in TrueUpReasons /\ rs[6] \in PtypeReasons)

\* C17 as stated: for every gate-passing record score_reasons is exactly the
\* reasons of the signals, joined by " | " in the order bill, roof age, sun
\* exposure, HOA, true-up, property type, with nothing before, between or
\* after them.
C17_OnlySignalReasons ==
    (Returned /\ PassesGates(reqLead)) =>
        /\ WellJoined(scored.score_reasons)
        /\ SignalReasons(ReasonsIn(scored.score_reasons))

\* C17 amended: for every gate-passing record score_reasons is the reason
\* "Homeowner" of the ownership gate followed by the reasons of the signals,
\* joined by " | " in the order bill, roof age, sun exposure, HOA, true-up,
\* property type; bill, roof, sun and HOA give exactly one reason each,
\* true-up and property type at most one each.
C17_HomeownerThenSignalReasons ==
    (Returned /\ PassesGates(reqLead)) =>
        /\ WellJoined(scored.score_reasons)
        /\ Head(ReasonsIn(scored.score_reasons)) = "Homeowner"
        /\ SignalReasons(Tail(ReasonsIn(scored.score_reasons)))

\* C17 witness: a record with all six signals has seven reasons, in order
C17_Witness ==
    /\ Returned
    /\ PassesGates(reqLead)
    /\ WellJoined(scored.score_reasons)
    /\ ReasonsIn(scored.score_reasons) =
          <<"Homeowner", "Mid bill", "Roof 10-20 years", "Medium sun exposure",
            "HOA friction", "True-up indicated", "Mobile/manufactured complexity">>

(***************************************************************************)
(* C12                                                                     *)
(***************************************************************************)
\* the digits of the phone the lead was sent with, the last ten of them if
\* there are more
PhoneDigits(lead) ==
    IF Len(stripNonDigits(FieldText(lead, PhoneKeys))) > 10
    THEN SubSeq(stripNonDigits(FieldText(lead, PhoneKeys)),
                Len(stripNonDigits(FieldText(lead, PhoneKeys))) - 9,
                Len(stripNonDigits(FieldText(lead, PhoneKeys))))
    ELSE stripNonDigits(FieldText(lead, PhoneKeys))

\* the key leads are meant to be deduplicated on: the normalized phone, or
\* lacking a phone the lowercase email, or else the lowercase address and
\* the zip; <<>> for a lead with none of them
DedupeKey(lead) ==
    IF PhoneDigits(lead) # <<>> THEN <<"phone", PhoneDigits(lead)>>
    ELSE IF FieldText(lead, EmailKeys) # <<>>
         THEN <<"email", FieldText(lead, EmailKeys)>>
    ELSE IF FieldText(lead, AddressKeys) # <<>>
         THEN <<"address", FieldText(lead, AddressKeys), FieldText(lead, ZipKeys)>>
    ELSE <<>>

\* the request is an /ingest call that was answered 200
Ingested(r) ==
    /\ reqs[r].st = "done"
    /\ reqs[r].path = "/ingest"
    /\ reqs[r].resp.status = 200

\* two /ingest calls that succeeded on leads with the same dedupe key
SameKeyIngests(r1, r2) ==
    /\ r1 < r2
    /\ Ingested(r1)
    /\ Ingested(r2)
    /\ DedupeKey(reqs[r1].lead) # <<>>
    /\ DedupeKey(reqs[r1].lead) = DedupeKey(reqs[r2].lead)

\* C12 as stated: after any sequence of non-overlapping /ingest calls whose
\* leads share the same dedupe key the store holds one record for them: the
\* later call found the record of the earlier one and updated it, whatever
\* formatting the phone was submitted with.
C12_OneRecordPerKey ==
    NoneInFlight =>
        \A r1, r2 \in Reqs :
            SameKeyIngests(r1, r2) =>
                /\ reqs[r2].resp.airtable.action = "updated"
                /\ reqs[r2].resp.airtable.record_id = reqs[r1].resp.airtable.record_id

(***************************************************************************)
(* C18                                                                     *)
(***************************************************************************)
\* the lead was sent with its phone, if any, as bare digits, ten at most:
\* the stored Phone column then equals the normalized phone
PlainlyKeyed(lead) ==
    FieldText(lead, PhoneKeys) = PhoneDigits(lead)

\* C18 as stated: in every interleaving of two /ingest requests with the
\* same dedupe key the store ends with at most one record for that key
\* (stated for keys that calls one after the other do deduplicate: a phone
\* sent as bare digits, an email, an address).
C18_OneRecordPerKeyInterleaved ==
    NoneInFlight =>
        \A r1, r2 \in Reqs :
            (/\ SameKeyIngests(r1, r2)
             /\ PlainlyKeyed(reqs[r1].lead)
             /\ PlainlyKeyed(reqs[r2].lead)) =>
                reqs[r2].resp.airtable.record_id = reqs[r1].resp.airtable.record_id

(***************************************************************************)
(* C13                                                                     *)
(***************************************************************************)
\* request r is received in this step, on the path
ReceivedNow(r, path) ==
    /\ reqs[r].st = "idle"
    /\ reqs'[r].st # "idle"
    /\ reqs'[r].path = path

\* C13: the step that handles a /score request, authorized or not, leaves
\* the store as it was, issues no Airtable request and ends the request;
\* its response is 200 exactly if scoreLead was called and returned, and
\* then carries what scoreLead returns for the lead; once answered, the
\* request does nothing more.
C13_ScoreIsReadOnly ==
    [][\A r \in Reqs :
          /\ ReceivedNow(r, "/score") =>
                /\ table' = table
                /\ reqs'[r].st = "done"
                /\ reqs'[r].calls = <<>>
                /\ reqs'[r].resp.status \in {200, 401, 500}
                /\ (reqs'[r].resp.status = 200)
                      <=> (reqs'[r].scored \notin {NoResult, Throw})
                /\ (reqs'[r].resp.status = 200)
                      => (reqs'[r].resp.scored = scoreLead(reqs'[r].lead))
          /\ (reqs[r].st = "done") => (reqs'[r] = reqs[r])]_vars

\* C13 witness: a /score request was answered 200 with a qualified result
\* while the store held a record, and the store holds just that record
C13_Witness ==
    \E r \in Reqs :
        /\ reqs[r].st = "done"
        /\ reqs[r].path = "/score"
        /\ reqs[r].resp.status = 200
        /\ reqs[r].resp.scored.tier = "Qualified - Send to Marshall"
        /\ reqs[r].calls = <<>>
        /\ r > 1
        /\ Len(table) = 1
        /\ table[1]["Internal notes"] = 1

(***************************************************************************)
(* C14                                                                     *)
(***************************************************************************)
\* scoreLead was called for the request
Scored(r) == reqs[r].st # "idle" /\ reqs[r].scored # NoResult

Untouched(r) ==
    /\ reqs[r].scored = NoResult
    /\ reqs[r].calls = <<>>
    /\ \A id \in 1..Len(table) : table[id]["Internal notes"] # r

\* C19: with BRAIN_SECRET configured, a request whose x-brain-secret header
\* is missing or different is answered 401 and neither scoreLead nor any
\* Airtable request is executed for it; with BRAIN_SECRET not configured a
\* request is answered 500 in production, likewise untouched, and is
\* handled (scoreLead is called) outside production.
C19_SecretGate ==
    \A r \in Reqs :
        (reqs[r].st # "idle") =>
            /\ (BRAIN_SECRET # "" /\ reqs[r].header # BRAIN_SECRET) =>
                  /\ reqs[r].st = "done"
                  /\ reqs[r].resp.status = 401
                  /\ Untouched(r)
            /\ (BRAIN_SECRET = "" /\ NODE_ENV = "production") =>
                  /\ reqs[r].st = "done"
                  /\ reqs[r].resp.status = 500
                  /\ Untouched(r)
            /\ (BRAIN_SECRET = "" /\ NODE_ENV # "production") =>
                  /\ reqs[r].scored # NoResult
                  /\ reqs[r].resp.status # 401

\* C19 witness: with the secret configured an /ingest request with a wrong
\* header was answered 401 after another request had stored a record
C19_Witness ==
    /\ BRAIN_SECRET = "s3cret"
    /\ Len(table) = 1
    /\ reqs[2].st = "done"
    /\ reqs[2].path = "/ingest"
    /\ reqs[2].header = "guess"
    /\ reqs[2].resp.status = 401
    /\ Untouched(2)
====
